---- MODULE Spec2Model ----
(***************************************************************************)
(* Model of the nehiyawewin syllabics roster builder.                      *)
(*                                                                         *)
(* Two programs are modelled side by side, selected by the variable prog:  *)
(*   "legacy"     libsyllabics/legacy_roster.py with libsyllabics/types.py *)
(*   "standalone" syllabics.py                                             *)
(*                                                                         *)
(* A Python str is a sequence of one-character strings, a Unicode name is  *)
(* the sequence of its tokens (the result of name(graph).split()), a glyph *)
(* chr(i) is identified with its scalar value i.  The Unicode name         *)
(* database is the input: Init draws it from bounded pools of names.       *)
(***************************************************************************)
EXTENDS Integers, Sequences, FiniteSets, TLC

VARIABLES
    prog,                   \* which program runs: "legacy" or "standalone"
    db,                     \* unicodedata.name: scalar value -> tokens of the name
    run,                    \* "first" or "second" build from the same db
    previous,               \* the sequence published by the first build
    pc,                     \* position in the module-level script
    idx,                    \* position of the running loop
    onsets_nucleus,         \* dict: shape key -> set of <<graph, desc>>
    keys,                   \* insertion order of onsets_nucleus
    roster,                 \* set of Syllabic entities
    plains_cree_syllabics,  \* sorted(roster), <<>> until published
    error,                  \* the exception that ended the script, or NoError
    row,                    \* last to_dict() result handed to a caller
    all_digraphs            \* create_vim_digraphs: digraphs seen so far

vars == <<prog, db, run, previous, pc, idx, onsets_nucleus, keys, roster,
          plains_cree_syllabics, error, row, all_digraphs>>

----------------------------------------------------------------------------
(* Characters and str methods *)

UPPER == <<"A","B","C","D","E","F","G","H","I","J","K","L","M",
           "N","O","P","Q","R","S","T","U","V","W","X","Y","Z">>
LOWER == <<"a","b","c","d","e","f","g","h","i","j","k","l","m",
           "n","o","p","q","r","s","t","u","v","w","x","y","z">>
Digits == {"0","1","2","3","4","5","6","7","8","9"}
Punctuation == {"!","\"","#","$","%","&","'","(",")","*","+",",","-",".","/",
                ":",";","<","=",">","?","@","[","\\","]","^","_","{","|",
                "}","~"}
Whitespace == {" ","\t","\n","\r","\f"}

Range(s) == {s[k] : k \in DOMAIN s}

\* string.printable (the grave accent is left out: the parser rejects it in a
\* string literal, and no digraph is built from it)
ascii_printable == Digits \cup Range(LOWER) \cup Range(UPPER) \cup Punctuation \cup Whitespace

\* str.lower() / str.upper() on one character
LowerChar(c) ==
    IF \E k \in DOMAIN UPPER : UPPER[k] = c
    THEN LOWER[CHOOSE k \in DOMAIN UPPER : UPPER[k] = c]
    ELSE c

UpperChar(c) ==
    IF \E k \in DOMAIN LOWER : LOWER[k] = c
    THEN UPPER[CHOOSE k \in DOMAIN LOWER : LOWER[k] = c]
    ELSE c

lower(s) == [k \in DOMAIN s |-> LowerChar(s[k])]
upper(s) == [k \in DOMAIN s |-> UpperChar(s[k])]

\* " ".join(tokens)
RECURSIVE join(_)
join(tokens) ==
    IF tokens = <<>> THEN <<>>
    ELSE IF Len(tokens) = 1 THEN tokens[1]
    ELSE tokens[1] \o <<" ">> \o join(Tail(tokens))

\* sub in s   (substring test on str)
contains(s, sub) ==
    \E k \in 0..(Len(s) - Len(sub)) : SubSeq(s, k + 1, k + Len(sub)) = sub

\* s.startswith(prefix)
startswith(s, prefix) ==
    Len(s) >= Len(prefix) /\ SubSeq(s, 1, Len(prefix)) = prefix

\* token in desc   (membership in a list or tuple of tokens)
token_in(token, desc) == \E k \in DOMAIN desc : desc[k] = token

----------------------------------------------------------------------------
(* Tokens of the Unicode names *)

CANADIAN   == <<"C","A","N","A","D","I","A","N">>
SYLLABICS  == <<"S","Y","L","L","A","B","I","C","S">>
WEST_CREE  == <<"W","E","S","T","-","C","R","E","E">>
WOODS_CREE == <<"W","O","O","D","S","-","C","R","E","E">>
OJIBWAY    == <<"O","J","I","B","W","A","Y">>
TH_CREE    == <<"T","H","-","C","R","E","E">>
Y_CREE     == <<"Y","-","C","R","E","E">>
CARRIER    == <<"C","A","R","R","I","E","R">>
FINAL      == <<"F","I","N","A","L">>
MEDIAL     == <<"M","E","D","I","A","L">>
ACUTE      == <<"A","C","U","T","E">>
GRAVE      == <<"G","R","A","V","E">>
SHORT      == <<"S","H","O","R","T">>
HORIZONTAL == <<"H","O","R","I","Z","O","N","T","A","L">>
VERTICAL   == <<"V","E","R","T","I","C","A","L">>
STROKE     == <<"S","T","R","O","K","E">>
STROKES    == <<"S","T","R","O","K","E","S">>
RIGHT      == <<"R","I","G","H","T">>
TOP        == <<"T","O","P">>
HALF       == <<"H","A","L","F">>
RING       == <<"R","I","N","G">>
DOUBLE     == <<"D","O","U","B","L","E">>
PLUS       == <<"P","L","U","S">>
TH         == <<"T","H">>
THW        == <<"T","H","W">>
HK         == <<"H","K">>
TLHU       == <<"T","L","H","U">>

\* "CANADIAN SYLLABICS " + " ".join(desc), split
Name(desc) == <<CANADIAN, SYLLABICS>> \o desc

----------------------------------------------------------------------------
(* Outcomes of a Python expression: a value, or a raised exception *)

Ok(v)     == [exc |-> "", val |-> <<v>>]
Raise(x)  == [exc |-> x, val |-> <<>>]
IsOk(r)   == r.exc = ""
Val(r)    == r.val[1]

\* The value None, as to_dict() stores it for a missing attribute
None == [exc |-> "None", val |-> <<>>]

----------------------------------------------------------------------------
(* Module-level constants *)

\* pattern = re.compile(r"^(?:[PTCKSMNWY]W?)?([AIOE])\1?$"); pattern.match(s)
pattern_match(s) ==
    \E k \in 0..2 :
        /\ k <= Len(s)
        /\ k >= 1 => s[1] \in {"P","T","C","K","S","M","N","W","Y"}
        /\ k = 2 => s[2] = "W"
        /\ LET r == SubSeq(s, k + 1, Len(s)) IN
              /\ Len(r) \in {1, 2}
              /\ r[1] \in {"A","I","O","E"}
              /\ Len(r) = 2 => r[2] = r[1]

\* The three consonant tables: sets of <<partial Unicode name, SRO>>
consonants_common ==
    { <<join(<<WEST_CREE, <<"P">>>>), <<"p">>>>,
      <<join(<<FINAL, ACUTE>>), <<"t">>>>,
      <<join(<<FINAL, GRAVE>>), <<"k">>>>,
      <<join(<<FINAL, SHORT, HORIZONTAL, STROKE>>), <<"c">>>>,
      <<join(<<WEST_CREE, <<"M">>>>), <<"m">>>>,
      <<join(<<FINAL, RIGHT, HALF, RING>>), <<"n">>>>,
      <<join(<<FINAL, TOP, HALF, RING>>), <<"s">>>>,
      <<join(<<FINAL, DOUBLE, SHORT, VERTICAL, STROKES>>), <<"h">>>>,
      <<join(<<FINAL, RING>>), <<"w">>>>,
      <<join(<<HK>>), <<"h","k">>>>,
      <<join(<<MEDIAL, <<"L">>>>), <<"l">>>>,
      <<join(<<MEDIAL, <<"R">>>>), <<"r">>>> }

\* legacy_roster.py: consonants
consonants_legacy ==
    consonants_common \cup
    { <<join(<<FINAL, PLUS>>), <<"y">>>>,
      <<join(<<WOODS_CREE, FINAL, TH>>), <<"t","h">>>> }

\* types.py: the table local to Consonant.sro
consonants_types ==
    consonants_common \cup
    { <<join(<<FINAL, PLUS>>), <<"y">>>>,
      <<join(<<TH_CREE, TH>>), <<"t","h">>>> }

\* syllabics.py: consonants
consonants_standalone ==
    consonants_common \cup
    { <<join(<<WEST_CREE, <<"Y">>>>), <<"y">>>>,
      <<join(<<TH_CREE, TH>>), <<"t","h">>>> }

\* key in table
in_table(key, table) == \E p \in table : p[1] = key

\* table[key]
lookup(table, key) ==
    IF in_table(key, table)
    THEN Ok((CHOOSE p \in table : p[1] = key)[2])
    ELSE Raise("KeyError")

\* The table the classification loop consults
consonants(p) == IF p = "legacy" THEN consonants_legacy ELSE consonants_standalone

\* The table Consonant.sro consults
sro_table(p) == IF p = "legacy" THEN consonants_types ELSE consonants_standalone

\* range(0x1400, 0x1680) and range(0x18B0, 0x18F6)
UNIFIED_CANADIAN_ABORGINAL_SYLLABICS == 5120..(5760 - 1)
UNIFIED_CANADIAN_ABORGINAL_SYLLABICS_EXTENDED == 6320..(6390 - 1)

COMBINING_CIRCUMFLEX_ACCENT == "U+0302"

VOWELS == <<"A","E","I","O">>

----------------------------------------------------------------------------
(* The Syllabic classes.  An entity is [kind, character]; kind is the     *)
(* class name and character the scalar value of the glyph.                 *)

Entity(kind, graph) == [kind |-> kind, character |-> graph]
Consonant(graph) == Entity("Consonant", graph)

\* Syllabic.scalar_value: ord(self.character)
scalar_value(e) == e.character

\* Syllabic.name, split into tokens
name(e) == db[e.character]

\* Syllabic.kind
kind(e) == lower(CASE e.kind = "Syllable"  -> <<"S","y","l","l","a","b","l","e">>
                   [] e.kind = "Vowel"     -> <<"V","o","w","e","l">>
                   [] e.kind = "Consonant" -> <<"C","o","n","s","o","n","a","n","t">>)

\* Syllabic.__eq__ and Syllabic.__lt__
syllabic_eq(a, b) == scalar_value(a) = scalar_value(b)
syllabic_lt(a, b) == scalar_value(a) < scalar_value(b)

\* Syllabic.in_woods_cree
in_woods_cree(e) == Ok(TRUE)

\* has_vowel / has_consonant class attributes
has_vowel(e) == Ok(e.kind # "Consonant")
has_consonant(e) == Ok(e.kind # "Vowel")

\* SyllabicWithVowelBase.syllable: the last token of the name
syllable(e) ==
    IF e.kind = "Consonant" THEN Raise("AttributeError")
    ELSE Ok(name(e)[Len(name(e))])

\* SyllabicWithVowelBase.vowel
vowel(e) ==
    LET s == syllable(e) IN
    IF ~IsOk(s) THEN s
    ELSE LET last_char == Val(s)[Len(Val(s))] IN
         IF last_char \in Range(VOWELS) THEN Ok(<<LowerChar(last_char)>>)
         ELSE Raise("AssertionError")

\* SyllabicWithVowelBase.has_long_vowel
has_long_vowel(e) ==
    LET v == vowel(e) IN
    IF ~IsOk(v) THEN v
    ELSE LET s == Val(syllable(e)) IN
         IF Val(v) = <<"e">> THEN Ok(TRUE)
         ELSE IF Len(s) < 2 THEN Ok(FALSE)
         ELSE IF s[Len(s)] = s[Len(s) - 1] THEN Ok(TRUE)
         ELSE Ok(FALSE)

\* normalize("NFC", vowel + COMBINING_CIRCUMFLEX_ACCENT): the precomposed letter
nfc_circumflex(v) ==
    CASE v = <<"a">> -> <<"U+00E2">>
      [] v = <<"e">> -> <<"U+00EA">>
      [] v = <<"i">> -> <<"U+00EE">>
      [] v = <<"o">> -> <<"U+00F4">>
      [] OTHER       -> v \o <<COMBINING_CIRCUMFLEX_ACCENT>>

\* SyllabicWithVowelBase.vowel_with_length
vowel_with_length(e) ==
    LET l == has_long_vowel(e) IN
    IF ~IsOk(l) THEN l
    ELSE IF ~Val(l) THEN vowel(e)
    ELSE Ok(nfc_circumflex(Val(vowel(e))))

\* SyllabicWithVowelBase._qwerty_mnemonic_for_vowel
qwerty_mnemonic_for_vowel(e) ==
    LET v == vowel(e) IN
    IF ~IsOk(v) THEN v
    ELSE IF Val(v) = <<"e">> \/ ~Val(has_long_vowel(e)) THEN v
    ELSE Ok(Val(v) \o Val(v))

\* SyllabicWithVowelBase.new
new(graph) ==
    LET syllable_name == db[graph][Len(db[graph])] IN
    IF SubSeq(syllable_name, 1, 1) # <<>> /\ syllable_name[1] \in Range(VOWELS)
    THEN Entity("Vowel", graph)
    ELSE Entity("Syllable", graph)

\* Consonant.sro
consonant_sro(e) ==
    LET description == join(SubSeq(name(e), 3, Len(name(e)))) IN
    lookup(sro_table(prog), description)

\* Syllable.consonant / Consonant.consonant (Vowel has none)
consonant(e) ==
    CASE e.kind = "Syllable" ->
            LET s == Val(syllable(e)) IN
            IF startswith(s, TH) THEN Ok(<<"t","h">>)
            ELSE Ok(<<LowerChar(s[1])>>)
      [] e.kind = "Consonant" ->
            LET r == consonant_sro(e) IN
            IF ~IsOk(r) THEN r
            ELSE IF Val(r) = <<"h","k">> THEN Raise("AttributeError")
            ELSE r
      [] OTHER -> Raise("AttributeError")

\* Syllable.is_labialized: "W" in self.syllable[1:]
is_labialized(e) ==
    IF e.kind # "Syllable" THEN Raise("AttributeError")
    ELSE LET s == Val(syllable(e)) IN
         Ok(\E k \in 2..Len(s) : s[k] = "W")

\* Syllable.has_w
has_w(e) ==
    IF e.kind # "Syllable" THEN Raise("AttributeError")
    ELSE Ok(Val(is_labialized(e)) \/ Val(consonant(e)) = <<"w">>)

\* Syllable.sro / Vowel.sro / Consonant.sro
sro(e) ==
    CASE e.kind = "Syllable" ->
            LET v == vowel_with_length(e) IN
            IF ~IsOk(v) THEN v
            ELSE Ok(Val(consonant(e))
                    \o (IF Val(is_labialized(e)) THEN <<"w">> ELSE <<>>)
                    \o Val(v))
      [] e.kind = "Vowel" -> vowel_with_length(e)
      [] OTHER -> consonant_sro(e)

\* Syllable.vim_digraph with the vowel never uppercased
syllable_vim_digraph_no_length(e) ==
    LET c == Val(consonant(e)) IN
    IF Len(c) > 1 THEN Ok(<<>>)
    ELSE LET v == vowel(e) IN
         IF ~IsOk(v) THEN v
         ELSE Ok((IF Val(is_labialized(e)) THEN upper(c) ELSE c) \o Val(v))

\* Syllable.vim_digraph with the test for the vowel e left out
syllable_vim_digraph_upper_e(e) ==
    LET c == Val(consonant(e)) IN
    IF Len(c) > 1 THEN Ok(<<>>)
    ELSE LET v == vowel(e) IN
         IF ~IsOk(v) THEN v
         ELSE Ok((IF Val(is_labialized(e)) THEN upper(c) ELSE c)
                 \o (IF Val(has_long_vowel(e)) THEN upper(Val(v)) ELSE Val(v)))

\* Syllable.vim_digraph
syllable_vim_digraph(e) ==
    LET c == Val(consonant(e)) IN
    IF Len(c) > 1 THEN Ok(<<>>)
    ELSE LET v == vowel(e) IN
         IF ~IsOk(v) THEN v
         ELSE Ok((IF Val(is_labialized(e)) THEN upper(c) ELSE c)
                 \o (IF Val(v) # <<"e">> /\ Val(has_long_vowel(e))
                     THEN upper(Val(v)) ELSE Val(v)))

\* Vowel.vim_digraph
vowel_vim_digraph(e) ==
    LET l == has_long_vowel(e) IN
    IF ~IsOk(l) THEN l
    ELSE Ok(Val(vowel(e)) \o (IF Val(l) THEN <<":">> ELSE <<".">>))

\* Consonant.vim_digraph
consonant_vim_digraph(e) ==
    LET r == consonant_sro(e) IN
    IF ~IsOk(r) THEN r
    ELSE IF Val(r) = <<"h","k">> THEN Ok(<<"h","k">>)
    ELSE IF Val(r) = <<"t","h">> THEN Ok(<<>>)
    ELSE Ok(Val(r) \o <<".">>)

vim_digraph(e) ==
    CASE e.kind = "Syllable" -> syllable_vim_digraph(e)
      [] e.kind = "Vowel"    -> vowel_vim_digraph(e)
      [] OTHER               -> consonant_vim_digraph(e)

\* Consonant.in_plains_cree: types.py compares sro, syllabics.py compares consonant
consonant_in_plains_cree(e) ==
    LET r == IF prog = "legacy" THEN consonant_sro(e) ELSE consonant(e) IN
    IF ~IsOk(r) THEN r ELSE Ok(Val(r) # <<"t","h">>)

\* Syllable.in_plains_cree / Vowel.in_plains_cree / Consonant.in_plains_cree
in_plains_cree(e) ==
    CASE e.kind = "Syllable" -> Ok(Val(consonant(e)) # <<"t","h">>)
      [] e.kind = "Vowel"    -> Ok(TRUE)
      [] OTHER               -> consonant_in_plains_cree(e)

\* Syllabic.in_swampy_cree
in_swampy_cree(e) == in_plains_cree(e)

\* Syllable.qwerty_mnemonic: types.py inserts "w" when labialized, syllabics.py does not
syllable_qwerty_mnemonic(e) ==
    LET v == qwerty_mnemonic_for_vowel(e) IN
    IF ~IsOk(v) THEN v
    ELSE IF prog = "legacy"
         THEN Ok(Val(consonant(e))
                 \o (IF Val(is_labialized(e)) THEN <<"w">> ELSE <<>>)
                 \o Val(v))
         ELSE Ok(Val(consonant(e)) \o Val(v))

qwerty_mnemonic(e) ==
    CASE e.kind = "Syllable" -> syllable_qwerty_mnemonic(e)
      [] e.kind = "Vowel"    -> qwerty_mnemonic_for_vowel(e)
      [] OTHER               -> consonant_sro(e)

\* Syllabic.code_point: f"U+{self.scalar_value:04X}"
HEXDIGITS == <<"0","1","2","3","4","5","6","7","8","9","A","B","C","D","E","F">>

RECURSIVE hex(_)
hex(n) == IF n < 16 THEN <<HEXDIGITS[n + 1]>>
          ELSE hex(n \div 16) \o <<HEXDIGITS[(n % 16) + 1]>>

RECURSIVE zero_pad(_, _)
zero_pad(s, width) == IF Len(s) >= width THEN s ELSE zero_pad(<<"0">> \o s, width)

code_point(e) ==
    IF scalar_value(e) <= 65535
    THEN Ok(<<"U","+">> \o zero_pad(hex(scalar_value(e)), 4))
    ELSE Raise("AssertionError")

\* to_r: a bool becomes str(thing).upper(); is_bool is isinstance(thing, bool)
to_r(r, is_bool) ==
    IF IsOk(r) /\ is_bool
    THEN Ok(IF Val(r) THEN <<"T","R","U","E">> ELSE <<"F","A","L","S","E">>)
    ELSE r

\* The aliases of the attributes whose value is a bool
bool_attrs == {"has.vowel", "has.long.vowel", "has.consonant", "has.w",
               "in.plains.cree", "in.woods.cree", "in.swampy.cree"}

\* Syllabic.to_dict: the attributes in order, as <<alias, outcome of getattr>>
attrs(e) ==
    << <<"cans", Ok(e.character)>>,
       <<"latn", sro(e)>>,
       <<"scalar.value", Ok(scalar_value(e))>>,
       <<"kind", Ok(kind(e))>>,
       <<"has.vowel", has_vowel(e)>>,
       <<"has.long.vowel", has_long_vowel(e)>>,
       <<"vowel", vowel_with_length(e)>>,
       <<"has.consonant", has_consonant(e)>>,
       <<"consonant", consonant(e)>>,
       <<"has.w", has_w(e)>>,
       <<"in.plains.cree", in_plains_cree(e)>>,
       <<"in.woods.cree", in_woods_cree(e)>>,
       <<"in.swampy.cree", in_swampy_cree(e)>>,
       <<"qwerty.mnemonic", qwerty_mnemonic(e)>>,
       <<"vim.digraph", vim_digraph(e)>>,
       <<"code.point", code_point(e)>>,
       <<"unicode.name", Ok(join(name(e)))>> >>

\* except (AttributeError, ValueError): value = None
caught(r) == r.exc \in {"AttributeError", "ValueError"}

to_dict(e) ==
    LET a == attrs(e)
        uncaught == {k \in DOMAIN a : ~IsOk(a[k][2]) /\ ~caught(a[k][2])}
    IN  IF uncaught # {}
        THEN Raise(a[CHOOSE k \in uncaught : \A j \in uncaught : k <= j][2].exc)
        ELSE Ok([k \in DOMAIN a |->
                    <<a[k][1], IF caught(a[k][2]) THEN None
                                ELSE to_r(a[k][2], a[k][1] \in bool_attrs)>>])

----------------------------------------------------------------------------
(* The roster *)

\* roster.add(e): a set keyed by __hash__ and __eq__, that is by scalar value
roster_add(r, e) ==
    IF \E x \in r : syllabic_eq(x, e) THEN r ELSE r \cup {e}

\* sorted(roster) with the comparison reversed
RECURSIVE sorted_descending(_)
sorted_descending(S) ==
    IF S = {} THEN <<>>
    ELSE LET m == CHOOSE x \in S : \A y \in S : ~syllabic_lt(x, y)
         IN  <<m>> \o sorted_descending(S \ {m})

\* sorted(roster): ascending by __lt__
RECURSIVE sorted(_)
sorted(S) ==
    IF S = {} THEN <<>>
    ELSE LET m == CHOOSE x \in S : \A y \in S : ~syllabic_lt(y, x)
         IN  <<m>> \o sorted(S \ {m})

\* The orders in which a Python set may be iterated
Orders(S) ==
    {f \in [1..Cardinality(S) -> S] : \A a, b \in 1..Cardinality(S) : f[a] = f[b] => a = b}

NoError == [type |-> "", arg |-> 0]
ValueError(graph) == [type |-> "ValueError", arg |-> graph]

\* The dialect markers choose_appropriate_variant accepts
is_marked(desc) ==
    \/ token_in(WEST_CREE, desc)
    \/ token_in(WOODS_CREE, desc)
    \/ prog = "legacy" /\ token_in(OJIBWAY, desc)

\* choose_appropriate_variant that settles for the first candidate visited
\* where the code raises ValueError
choose_appropriate_variant_lenient(order, r) ==
    LET marked == {k \in DOMAIN order : is_marked(order[k][2])}
        plain  == {k \in DOMAIN order : Len(order[k][2]) = 0}
        least(K) == CHOOSE k \in K : \A j \in K : k <= j
    IN  IF marked # {}
        THEN [roster |-> roster_add(r, new(order[least(marked)][1])), error |-> NoError]
        ELSE IF plain # {}
        THEN [roster |-> roster_add(r, new(order[least(plain)][1])), error |-> NoError]
        ELSE [roster |-> roster_add(r, new(order[1][1])), error |-> NoError]

\* choose_appropriate_variant with break where the first loop returns: the
\* second loop still runs after a marked candidate was added
choose_appropriate_variant_break(order, r) ==
    LET marked == {k \in DOMAIN order : is_marked(order[k][2])}
        plain  == {k \in DOMAIN order : Len(order[k][2]) = 0}
        least(K) == CHOOSE k \in K : \A j \in K : k <= j
        r1 == IF marked # {} THEN roster_add(r, new(order[least(marked)][1])) ELSE r
    IN  IF plain # {}
        THEN [roster |-> roster_add(r1, new(order[least(plain)][1])), error |-> NoError]
        ELSE [roster |-> r1, error |-> ValueError(order[Len(order)][1])]

\* choose_appropriate_variant(variants), the set being visited in `order`:
\* the roster after the call and the exception it raised, if any
choose_appropriate_variant(order, r) ==
    LET marked == {k \in DOMAIN order : is_marked(order[k][2])}
        plain  == {k \in DOMAIN order : Len(order[k][2]) = 0}
        least(K) == CHOOSE k \in K : \A j \in K : k <= j
    IN  IF marked # {}
        THEN [roster |-> roster_add(r, new(order[least(marked)][1])), error |-> NoError]
        ELSE IF plain # {}
        THEN [roster |-> roster_add(r, new(order[least(plain)][1])), error |-> NoError]
        ELSE [roster |-> r, error |-> ValueError(order[Len(order)][1])]

----------------------------------------------------------------------------
(* The input: the Unicode name database over a sample of code points *)

\* Number of code points the database is sampled at
NumPoints == 4

\* The first and last scalar value of the scanned ranges, and the values next
\* to them that the scan must leave out
SamplePoints == <<5120, 6389, 5759, 5760, 6320, 6390, 5119, 6319>>

CodePoints == {SamplePoints[k] : k \in 1..NumPoints}

\* Shape keys
PWII == <<"P","W","I","I">>
TA   == <<"T","A">>
TAA  == <<"T","A","A">>
TWA  == <<"T","W","A">>
TWAA == <<"T","W","A","A">>
TE   == <<"T","E">>
TWE  == <<"T","W","E">>
TEE  == <<"T","E","E">>
THE  == <<"T","H","E">>
THWEE == <<"T","H","W","E","E">>
WA   == <<"W","A">>
WE   == <<"W","E">>
WAA  == <<"W","A","A">>
PE   == <<"P","E">>
CI   == <<"C","I">>
KOO  == <<"K","O","O">>
SWII == <<"S","W","I","I">>
MWA  == <<"M","W","A">>
NWI  == <<"N","W","I">>
NWE  == <<"N","W","E">>
YWAA == <<"Y","W","A","A">>
PEE  == <<"P","E","E">>

\* Pools of names (descriptors after the CANADIAN SYLLABICS prefix).  A
\* database assigns distinct names of one pool to the sampled code points.
PoolMarkers ==
    { <<WEST_CREE, PWII>>, <<WOODS_CREE, PWII>>, <<OJIBWAY, PWII>>, <<PWII>>,
      <<Y_CREE, PWII>> }

PoolUnresolved ==
    { <<Y_CREE, PWII>>, <<CARRIER, PWII>>, <<PWII>>, <<TA>>, <<FINAL, ACUTE>> }

PoolTh ==
    { <<TH_CREE, TH>>, <<TH_CREE, THE>>, <<WOODS_CREE, THWEE>>,
      <<WOODS_CREE, FINAL, TH>>, <<HK>> }

PoolDropped ==
    { <<WOODS_CREE, THE>>, <<CARRIER, TLHU>>, <<CARRIER, TEE>>, <<TE>>,
      <<TH_CREE, TH>> }

PoolFinals ==
    { <<WEST_CREE, <<"P">>>>, <<FINAL, GRAVE>>, <<FINAL, SHORT, HORIZONTAL, STROKE>>,
      <<WEST_CREE, <<"M">>>>, <<FINAL, RIGHT, HALF, RING>> }

PoolFinalsToo ==
    { <<FINAL, TOP, HALF, RING>>, <<FINAL, DOUBLE, SHORT, VERTICAL, STROKES>>,
      <<FINAL, PLUS>>, <<WEST_CREE, <<"Y">>>>, <<FINAL, RING>> }

PoolLoanwords ==
    { <<MEDIAL, <<"L">>>>, <<MEDIAL, <<"R">>>>, <<HK>>, <<FINAL, ACUTE>>, <<TA>> }

PoolSyllables ==
    { <<TA>>, <<TAA>>, <<TWA>>, <<TWAA>>, <<TE>> }

PoolLabialized ==
    { <<WEST_CREE, TWE>>, <<TWE>>, <<TE>>, <<WA>>, <<WE>> }

PoolVowels ==
    { <<<<"E">>>>, <<<<"A">>>>, <<<<"A","A">>>>, <<<<"I">>>>, <<FINAL, RING>> }

PoolOnsets ==
    { <<PE>>, <<CI>>, <<KOO>>, <<SWII>>, <<MWA>> }

PoolGlides ==
    { <<NWE>>, <<YWAA>>, <<WAA>>, <<OJIBWAY, NWI>>, <<NWI>> }

PoolCarrier ==
    { <<PE>>, <<CARRIER, PE>>, <<CARRIER, PEE>>, <<WEST_CREE, WE>>, <<CARRIER, WE>> }

Pools == {PoolMarkers, PoolUnresolved, PoolTh, PoolDropped, PoolFinals,
          PoolFinalsToo, PoolLoanwords, PoolSyllables, PoolLabialized, PoolVowels,
          PoolOnsets, PoolGlides, PoolCarrier}

\* The databases: distinct code points carry distinct names
Databases ==
    UNION { {[p \in CodePoints |-> Name(f[p])] :
                f \in {g \in [CodePoints -> pool] :
                          \A a, b \in CodePoints : g[a] = g[b] => a = b}} :
            pool \in Pools }

\* Ascending sequence of a set of scalar values
RECURSIVE ascending(_)
ascending(S) ==
    IF S = {} THEN <<>>
    ELSE LET m == CHOOSE x \in S : \A y \in S : x <= y
         IN  <<m>> \o ascending(S \ {m})

\* chain(UNIFIED_CANADIAN_ABORGINAL_SYLLABICS, ..._EXTENDED), at the sampled points
ALL_SYLLABICS ==
    ascending(CodePoints \cap UNIFIED_CANADIAN_ABORGINAL_SYLLABICS)
    \o ascending(CodePoints \cap UNIFIED_CANADIAN_ABORGINAL_SYLLABICS_EXTENDED)

----------------------------------------------------------------------------
(* The module-level script *)

NoRow == [exc |-> "unset", val |-> <<>>]

\* Module import: roster = set(), onsets_nucleus = {}
Fresh ==
    /\ pc = "scan"
    /\ idx = 1
    /\ onsets_nucleus = <<>>
    /\ keys = <<>>
    /\ roster = {}
    /\ plains_cree_syllabics = <<>>
    /\ error = NoError
    /\ row = NoRow
    /\ all_digraphs = {}

Init ==
    /\ prog \in {"legacy", "standalone"}
    /\ db \in Databases
    /\ run = "first"
    /\ previous = <<>>
    /\ Fresh

\* onsets_nucleus.setdefault(syllable, set()).add((graph, tuple(desc[:-1])))
defer(d, key, graph, desc) ==
    [k \in DOMAIN d \cup {key} |->
        (IF k \in DOMAIN d THEN d[k] ELSE {})
        \cup (IF k = key THEN {<<graph, SubSeq(desc, 1, Len(desc) - 1)>>} ELSE {})]

\* The branch the classification loop takes for one descriptor
classify(desc) ==
    LET syll == desc[Len(desc)]
        desc_str == join(desc)
    IN  IF pattern_match(syll) THEN "defer"
        ELSE IF in_table(desc_str, consonants(prog)) THEN "consonant"
        ELSE IF token_in(TH_CREE, desc)
             THEN IF prog = "standalone" \/ desc[Len(desc)] # TH THEN "defer" ELSE "skip"
        ELSE IF token_in(WOODS_CREE, desc) /\ contains(desc_str, THW) THEN "defer"
        ELSE "skip"

\* for i in ALL_SYLLABICS: one iteration
Scan ==
    /\ pc = "scan"
    /\ idx <= Len(ALL_SYLLABICS)
    /\ LET graph == ALL_SYLLABICS[idx]
           nm    == db[graph]
           desc  == SubSeq(nm, 3, Len(nm))
           syll  == desc[Len(desc)]
           last  == idx = Len(ALL_SYLLABICS)
       IN  IF Len(nm) < 3 \/ <<nm[1], nm[2]>> # <<CANADIAN, SYLLABICS>>
           THEN /\ pc' = "failed"
                /\ error' = [type |-> "AssertionError", arg |-> graph]
                /\ UNCHANGED <<idx, onsets_nucleus, keys, roster>>
           ELSE /\ error' = error
                /\ onsets_nucleus' =
                      IF classify(desc) = "defer"
                      THEN defer(onsets_nucleus, syll, graph, desc)
                      ELSE onsets_nucleus
                /\ keys' =
                      IF classify(desc) = "defer" /\ syll \notin DOMAIN onsets_nucleus
                      THEN Append(keys, syll)
                      ELSE keys
                /\ roster' =
                      IF classify(desc) = "consonant"
                      THEN roster_add(roster, Consonant(graph))
                      ELSE roster
                /\ idx' = IF last THEN 1 ELSE idx + 1
                /\ pc' = IF ~last THEN "scan"
                         ELSE IF keys' = <<>> THEN "sort" ELSE "resolve"
    /\ UNCHANGED <<prog, db, run, previous, plains_cree_syllabics, row, all_digraphs>>

\* for syllable, variants in onsets_nucleus.items(): one iteration
Resolve ==
    /\ pc = "resolve"
    /\ idx <= Len(keys)
    /\ LET variants == onsets_nucleus[keys[idx]]
           last == idx = Len(keys)
       IN  \E order \in Orders(variants) :
             LET out ==
                   IF Cardinality(variants) > 1
                   THEN choose_appropriate_variant(order, roster)
                   ELSE \* graph, desc = first(variants)
                        IF token_in(CARRIER, order[1][2])
                        THEN [roster |-> roster, error |-> NoError]
                        ELSE [roster |-> roster_add(roster, new(order[1][1])),
                              error |-> NoError]
             IN  /\ roster' = out.roster
                 /\ error' = out.error
                 /\ IF out.error # NoError
                    THEN pc' = "failed" /\ idx' = idx
                    ELSE /\ pc' = IF last THEN "sort" ELSE "resolve"
                         /\ idx' = IF last THEN 1 ELSE idx + 1
    /\ UNCHANGED <<prog, db, run, previous, onsets_nucleus, keys,
                   plains_cree_syllabics, row, all_digraphs>>

\* plains_cree_syllabics = sorted(roster)
Sort ==
    /\ pc = "sort"
    /\ plains_cree_syllabics' = sorted(roster)
    /\ pc' = "done"
    /\ UNCHANGED <<prog, db, run, previous, idx, onsets_nucleus, keys, roster,
                   error, row, all_digraphs>>

\* A second run of the script on the same database (a new process: the sets
\* may be iterated in another order)
Rebuild ==
    /\ pc = "done"
    /\ run = "first"
    /\ row = NoRow
    /\ run' = "second"
    /\ previous' = plains_cree_syllabics
    /\ pc' = "scan"
    /\ idx' = 1
    /\ onsets_nucleus' = <<>>
    /\ keys' = <<>>
    /\ roster' = {}
    /\ plains_cree_syllabics' = <<>>
    /\ UNCHANGED <<prog, db, error, row, all_digraphs>>

\* A caller (create_tsv, or a user of the library) asks one entity for to_dict()
ToDict ==
    /\ pc = "done"
    /\ \E k \in DOMAIN plains_cree_syllabics :
          row' = to_dict(plains_cree_syllabics[k])
    /\ UNCHANGED <<prog, db, run, previous, pc, idx, onsets_nucleus, keys, roster,
                   plains_cree_syllabics, error, all_digraphs>>

\* create_vim_digraphs(): one iteration of its loop, or its return
create_vim_digraphs ==
    /\ prog = "standalone"
    /\ pc \in {"done", "vim"}
    /\ row = NoRow
    /\ IF idx > Len(plains_cree_syllabics)
       THEN /\ pc' = "vim_done"
            /\ UNCHANGED <<idx, error, all_digraphs>>
       ELSE LET syllabic == plains_cree_syllabics[idx]
                digraph == vim_digraph(syllabic)
            IN  IF ~IsOk(digraph)
                THEN /\ pc' = "vim_failed"
                     /\ error' = [type |-> digraph.exc, arg |-> syllabic.character]
                     /\ UNCHANGED <<idx, all_digraphs>>
                ELSE IF \/ Len(Val(digraph)) # 2
                        \/ Val(digraph) \in all_digraphs
                        \/ \E c \in Range(Val(digraph)) : c \notin ascii_printable
                THEN /\ pc' = "vim_failed"
                     /\ error' = [type |-> "AssertionError", arg |-> syllabic.character]
                     /\ UNCHANGED <<idx, all_digraphs>>
                ELSE /\ pc' = "vim"
                     /\ idx' = idx + 1
                     /\ all_digraphs' = all_digraphs \cup {Val(digraph)}
                     /\ error' = error
    /\ UNCHANGED <<prog, db, run, previous, onsets_nucleus, keys, roster,
                   plains_cree_syllabics, row>>

Next ==
    \/ Scan
    \/ Resolve
    \/ Sort
    \/ Rebuild
    \/ ToDict
    \/ create_vim_digraphs

Spec == Init /\ [][Next]_vars

----------------------------------------------------------------------------
(* Properties *)

\* The candidates of a shape key that the roster holds
selected(key) ==
    {v \in onsets_nucleus[key] : \E e \in roster : e.character = v[1]}

has_token(key, token) == \E v \in onsets_nucleus[key] : token_in(token, v[2])

\* Every shape key has been resolved and the script went on
Resolved == pc \in {"sort", "done", "vim", "vim_done", "vim_failed"}

\* C1: in legacy_roster.py, a shape key with two or more candidates resolves
\* by strict priority: a WEST-CREE candidate if there is one, else a
\* WOODS-CREE candidate if there is one, else an OJIBWAY candidate if there is
\* one, whatever the order in which the candidates are visited.
C1_PriorityCascade ==
    (prog = "legacy" /\ Resolved) =>
        \A key \in DOMAIN onsets_nucleus :
            Cardinality(onsets_nucleus[key]) >= 2 =>
                IF has_token(key, WEST_CREE)
                THEN \E v \in selected(key) : token_in(WEST_CREE, v[2])
                ELSE IF has_token(key, WOODS_CREE)
                THEN \E v \in selected(key) : token_in(WOODS_CREE, v[2])
                ELSE has_token(key, OJIBWAY) =>
                        \E v \in selected(key) : token_in(OJIBWAY, v[2])

\* C2: in legacy_roster.py, when a shape key has a WEST-CREE-marked candidate
\* and an unmarked candidate, the roster holds the WEST-CREE-marked glyph and
\* not the unmarked one, whatever the visiting order.
C2_WestCreeBeatsUnmarked ==
    (prog = "legacy" /\ Resolved) =>
        \A key \in DOMAIN onsets_nucleus :
            \A w, u \in onsets_nucleus[key] :
                (token_in(WEST_CREE, w[2]) /\ u[2] = <<>>) =>
                    /\ w \in selected(key)
                    /\ u \notin selected(key)

\* C3: two builds from the same name database publish the same sequence.
C3_Deterministic ==
    (run = "second" /\ pc = "done") => plains_cree_syllabics = previous

in_scanned_ranges(n) ==
    \/ n \in UNIFIED_CANADIAN_ABORGINAL_SYLLABICS
    \/ n \in UNIFIED_CANADIAN_ABORGINAL_SYLLABICS_EXTENDED

\* C4: no two roster entries share a scalar value, the published sequence is
\* strictly ascending by scalar value and holds exactly the roster, and every
\* entry lies in 0x1400..0x167F or 0x18B0..0x18F5.
C4_UniqueAscendingInRange ==
    /\ \A a, b \in roster : scalar_value(a) = scalar_value(b) => a = b
    /\ \A e \in roster : in_scanned_ranges(scalar_value(e))
    /\ \A j, k \in DOMAIN plains_cree_syllabics :
          j < k => scalar_value(plains_cree_syllabics[j])
                     < scalar_value(plains_cree_syllabics[k])
    /\ pc = "done" => Range(plains_cree_syllabics) = roster

\* C4 witness: a published roster with an entry from each range
C4_Witness ==
    /\ pc = "done"
    /\ Len(plains_cree_syllabics) >= 3
    /\ \E e \in roster : scalar_value(e) \in UNIFIED_CANADIAN_ABORGINAL_SYLLABICS
    /\ \E e \in roster : scalar_value(e) \in UNIFIED_CANADIAN_ABORGINAL_SYLLABICS_EXTENDED

SRO_FINALS ==
    { <<"p">>, <<"t">>, <<"k">>, <<"c">>, <<"m">>, <<"n">>, <<"s">>, <<"h">>,
      <<"y">>, <<"t","h">>, <<"w">>, <<"h","k">>, <<"l">>, <<"r">> }

\* C5: every Consonant the classifier accepted has an SRO spelling, one of
\* p t k c m n s h y th w hk l r, and every Syllable or Vowel of the roster
\* has a vowel among a i o e.
C5_DomainClosure ==
    \A e \in roster :
        IF e.kind = "Consonant"
        THEN IsOk(sro(e)) /\ Val(sro(e)) \in SRO_FINALS
        ELSE IsOk(vowel(e)) /\ Val(vowel(e)) \in {<<"a">>, <<"i">>, <<"o">>, <<"e">>}

\* C6: in syllabics.py no assertion of create_vim_digraphs fails on the built
\* roster: every digraph has two printable ASCII characters and none repeats.
C6_VimDigraphsPass ==
    prog = "standalone" => pc # "vim_failed"

\* An entity that is in Plains Cree and has a digraph
has_digraph(e) ==
    /\ in_plains_cree(e) = Ok(TRUE)
    /\ IsOk(vim_digraph(e))
    /\ Val(vim_digraph(e)) # <<>>

\* C7: among the roster entities with in_plains_cree true, vim_digraph is
\* defined, every non-empty digraph is two ASCII characters, and no two
\* entities share a non-empty digraph.
C7_DigraphIntegrity ==
    \A a \in roster :
        /\ in_plains_cree(a) = Ok(TRUE) => IsOk(vim_digraph(a))
        /\ has_digraph(a) =>
              /\ Len(Val(vim_digraph(a))) = 2
              /\ Range(Val(vim_digraph(a))) \subseteq ascii_printable
              /\ \A b \in roster :
                    (has_digraph(b) /\ b # a) => vim_digraph(b) # vim_digraph(a)

\* C7 witness: a built roster holding the hk final, another final and a syllable
C7_Witness ==
    /\ pc = "done"
    /\ prog = "legacy"
    /\ \E a, b, c \in roster :
          /\ has_digraph(a) /\ has_digraph(b) /\ has_digraph(c)
          /\ vim_digraph(a) = Ok(<<"h","k">>)
          /\ b.kind = "Consonant" /\ b # a
          /\ c.kind = "Syllable"

\* The th series: a syllable whose shape key begins with TH, a final named TH
is_th_series(e) ==
    LET last == name(e)[Len(name(e))] IN
    CASE e.kind = "Syllable"  -> startswith(last, TH)
      [] e.kind = "Consonant" -> last = TH
      [] OTHER                -> FALSE

\* C8: for every roster entity in_plains_cree is a boolean, false exactly for
\* the th series; in_woods_cree is true; in_swampy_cree equals in_plains_cree.
C8_DialectFlags ==
    \A e \in roster :
        /\ in_plains_cree(e) = Ok(~is_th_series(e))
        /\ in_woods_cree(e) = Ok(TRUE)
        /\ in_swampy_cree(e) = in_plains_cree(e)

\* A shape key no rule of choose_appropriate_variant resolves
unresolvable(key) ==
    /\ Cardinality(onsets_nucleus[key]) >= 2
    /\ \A v \in onsets_nucleus[key] :
          /\ ~token_in(WEST_CREE, v[2])
          /\ ~token_in(WOODS_CREE, v[2])
          /\ ~token_in(OJIBWAY, v[2])
          /\ v[2] # <<>>

\* C9: in legacy_roster.py, when some shape key has two or more candidates,
\* none marked WEST-CREE, WOODS-CREE or OJIBWAY and none unmarked, the script
\* never gets past that key: it ends in ValueError and publishes no sequence.
C9_NoPartialRoster ==
    (prog = "legacy" /\ \E key \in DOMAIN onsets_nucleus : unresolvable(key)) =>
        /\ pc \in {"scan", "resolve", "failed"}
        /\ plains_cree_syllabics = <<>>
        /\ pc = "failed" => error.type = "ValueError"
        /\ pc = "resolve" => \A k \in 1..(idx - 1) : ~unresolvable(keys[k])

\* C9 witness: the build failed on such a key after entities were accepted
C9_Witness ==
    /\ prog = "legacy"
    /\ pc = "failed"
    /\ error.type = "ValueError"
    /\ \E key \in DOMAIN onsets_nucleus : unresolvable(key)
    /\ roster # {}

\* C10: the digraph of a Syllable whose shape key begins with TH is empty;
\* otherwise it is the first letter of the shape key, uppercase iff a W
\* follows it, then the vowel letter, uppercase iff it is doubled and is not E.
C10_SyllableDigraph ==
    \A e \in roster :
        e.kind = "Syllable" =>
            LET s == name(e)[Len(name(e))]
                n == Len(s)
            IN  IF startswith(s, TH)
                THEN vim_digraph(e) = Ok(<<>>)
                ELSE vim_digraph(e) =
                        Ok(<< IF \E k \in 2..n : s[k] = "W" THEN s[1] ELSE LowerChar(s[1]),
                              IF s[n] # "E" /\ n >= 2 /\ s[n] = s[n - 1]
                              THEN s[n] ELSE LowerChar(s[n]) >>)

\* C10 witness: the roster holds the syllable TAA with digraph tA and a
\* labialized syllable
C10_Witness ==
    \E e \in roster :
          /\ e.kind = "Syllable"
          /\ name(e)[Len(name(e))] = TAA
          /\ vim_digraph(e) = Ok(<<"t","A">>)
          /\ \E f \in roster : f.kind = "Syllable" /\ is_labialized(f) = Ok(TRUE)

\* The keyboard mnemonic read off a shape key: the consonant, a w when a W
\* follows the first letter, the vowel letter, doubled when the key doubles it
\* and it is not E
mnemonic_of_key(s) ==
    LET n == Len(s) IN
    (IF startswith(s, TH) THEN <<"t","h">> ELSE <<LowerChar(s[1])>>)
    \o (IF \E k \in 2..n : s[k] = "W" THEN <<"w">> ELSE <<>>)
    \o (IF s[n] # "E" /\ n >= 2 /\ s[n] = s[n - 1]
        THEN <<LowerChar(s[n]), LowerChar(s[n])>> ELSE <<LowerChar(s[n])>>)

\* C11: in libsyllabics/types.py and in syllabics.py alike, the keyboard
\* mnemonic of every Syllable is its consonant, then "w" if and only if the
\* syllable is labialized, then the vowel letter, doubled if and only if the
\* vowel is long and is not e.
C11_QwertyMnemonic ==
    \A e \in roster :
        e.kind = "Syllable" =>
            qwerty_mnemonic(e) = Ok(mnemonic_of_key(name(e)[Len(name(e))]))

\* C12: once every shape key is resolved, a shape key with two or more
\* deferred candidates has exactly one of them in the roster, a shape key with
\* a single candidate has it in the roster unless its descriptor contains
\* CARRIER, and then has none; at no time does a shape key have two of its
\* candidates in the roster.
C12_OnePerShapeKey ==
    \A key \in DOMAIN onsets_nucleus :
        LET variants == onsets_nucleus[key] IN
        /\ Cardinality(selected(key)) <= 1
        /\ Resolved =>
              /\ Cardinality(variants) >= 2 => Cardinality(selected(key)) = 1
              /\ Cardinality(variants) = 1 =>
                    \A v \in variants :
                        v \in selected(key) <=> ~token_in(CARRIER, v[2])

\* C12 witness: a finished build where one shape key had two candidates, one
\* of them in the roster, and another shape key had a single CARRIER
\* candidate, left out
C12_Witness ==
    /\ pc = "done"
    /\ \E key \in DOMAIN onsets_nucleus :
          /\ Cardinality(onsets_nucleus[key]) >= 2
          /\ Cardinality(selected(key)) = 1
    /\ \E key \in DOMAIN onsets_nucleus :
          /\ Cardinality(onsets_nucleus[key]) = 1
          /\ has_token(key, CARRIER)
          /\ selected(key) = {}

\* The descriptor of a glyph: its name after CANADIAN SYLLABICS
descriptor(graph) == SubSeq(db[graph], 3, Len(db[graph]))

\* A code point no branch of the classification loop matches
unmatched(graph) ==
    LET desc == descriptor(graph) IN
    /\ ~pattern_match(desc[Len(desc)])
    /\ ~in_table(join(desc), consonants(prog))
    /\ ~token_in(TH_CREE, desc)
    /\ ~(token_in(WOODS_CREE, desc) /\ contains(join(desc), THW))

\* The bare-TH final: TH-CREE in the descriptor, TH its last token
bare_th(graph) ==
    LET desc == descriptor(graph) IN
    token_in(TH_CREE, desc) /\ desc[Len(desc)] = TH

\* The glyphs outside the scope of the roster
out_of_scope(graph) ==
    \/ unmatched(graph)
    \/ token_in(CARRIER, descriptor(graph))
    \/ bare_th(graph)

\* C13: a code point that matches no classifier branch, a glyph whose
\* descriptor contains CARRIER and the bare-TH final (TH-CREE in the
\* descriptor, TH its last token) are absent from the final roster, wherever
\* they are scanned and whatever candidates share their shape key, and
\* dropping them raises no error: a build that fails, fails on a shape key
\* that has two or more candidates besides the CARRIER ones.
C13_SilentExclusion ==
    /\ Resolved =>
          \A k \in DOMAIN ALL_SYLLABICS :
              out_of_scope(ALL_SYLLABICS[k]) =>
                  \A e \in roster : e.character # ALL_SYLLABICS[k]
    /\ pc = "failed" =>
          Cardinality({v \in onsets_nucleus[keys[idx]] : ~token_in(CARRIER, v[2])}) >= 2

====
